---- MODULE Spec2Model ----
(***************************************************************************)
(* AutoCloseScheduler (src/services/auto_close_scheduler.py): the loop     *)
(* that every 60 seconds asks the shift store to close overdue shifts and  *)
(* sends one summary message per closed shift.                             *)
(*                                                                         *)
(* The scheduler object holds one flag, is_running.  Every call of         *)
(* start_scheduler() is a coroutine; asyncio runs coroutines               *)
(* cooperatively, so the code between two awaits is one atomic step and    *)
(* every await (the store's close operation, the summary fetch, the        *)
(* sink's send, asyncio.sleep) is a point where other coroutines run.      *)
(* One action of this module is one such atomic step.                      *)
(*                                                                         *)
(* force_log and traceback.format_exc are taken not to raise.  "Error"     *)
(* means a Python Exception: the handlers are `except Exception`.           *)
(***************************************************************************)
EXTENDS Integers, Sequences, FiniteSets, TLC

(* ------------------------------ bounds -------------------------------- *)

\* Number of shifts that exist in the store.
MaxShifts == 2

\* Number of start_scheduler() coroutines created over a run.
MaxLoops == 2

(* ------------------------- program constants -------------------------- *)

\* asyncio.sleep(60): the fixed interval between two check cycles.
SleepInterval == 60

NumChats == 2

Shifts == 1..MaxShifts
Tasks == 1..MaxLoops
Chats == 1..NumChats

(* ------------------- the shift store (ShiftService) --------------------- *)

\* The chat that owns shift s, and the shift's human-facing sequence number
\* within that chat.
ChatOf(s) == ((s - 1) % NumChats) + 1
NumberOf(s) == ((s - 1) \div NumChats) + 1

\* ClosedShiftRecord {id, chat_id, number} of shift s.
RecordOf(s) == [id |-> s, chat_id |-> ChatOf(s), number |-> NumberOf(s)]

\* All orderings of a finite set of shifts, as sequences without repetition.
RECURSIVE Orderings(_)
Orderings(S) ==
    IF S = {} THEN {<<>>}
    ELSE UNION {{<<s>> \o rest : rest \in Orderings(S \ {s})} : s \in S}

\* check_and_auto_close_shifts: the lists the close operation may return in a
\* store with these statuses: the records of any set of open shifts (those
\* past their deadline), in any order.
DueShiftLists(status) ==
    UNION {{[k \in 1..Len(order) |-> RecordOf(order[k])] : order \in Orderings(due)} :
           due \in SUBSET {s \in Shifts : status[s] = "open"}}

\* The store after the close operation has returned recs: those shifts are
\* closed.
CloseShifts(status, recs) ==
    [s \in Shifts |->
        IF \E k \in 1..Len(recs) : recs[k].id = s THEN "closed" ELSE status[s]]

\* The list recs with the id missing from the records at the positions in
\* drop.
DropIds(recs, drop) ==
    [k \in 1..Len(recs) |-> IF k \in drop THEN [recs[k] EXCEPT !.id = 0] ELSE recs[k]]

\* IncomeSummary values the store may compute (amounts in hundredths): no
\* transactions, one transaction, the two-currency summary, and a summary
\* whose count is zero although a currency entry is present.
Summaries ==
    { [transaction_count |-> 0, total_amount |-> 0, currencies |-> <<>>],
      [transaction_count |-> 1, total_amount |-> 250,
       currencies |-> << [currency |-> "$", amount |-> 250, count |-> 1] >>],
      [transaction_count |-> 3, total_amount |-> 104550,
       currencies |-> << [currency |-> "$", amount |-> 4550, count |-> 2],
                         [currency |-> "KHR", amount |-> 100000, count |-> 1] >>],
      [transaction_count |-> 0, total_amount |-> 0,
       currencies |-> << [currency |-> "KHR", amount |-> 0, count |-> 0] >>] }

(* ------------------------------ state --------------------------------- *)

VARIABLES
    is_running,     \* AutoCloseScheduler.is_running
    loop,           \* loop[t]: the state of start_scheduler() coroutine t
    shift_status,   \* the store: shift_status[s] is "open" or "closed"
    send_calls,     \* send_calls[<<c, n>>]: the send_message calls made so far
                    \* to chat c with the summary of shift number n, and
                    \* how many of them returned success
    stop_at,        \* stop_at[t]: where loop t stood when stop_scheduler()
                    \* was called, for the first call since the flag was
                    \* last set by a starting loop ("none" if no such call)
    reentered,      \* start_scheduler() was called while a loop was live
    stop_pending    \* stop_scheduler() has been called after the latest
                    \* call of start_scheduler()

vars == <<is_running, loop, shift_status, send_calls, stop_at,
          reentered, stop_pending>>

\* The (chat, shift number) pairs a summary message can be about.
SendKeys == Chats \X {NumberOf(s) : s \in Shifts}
\* What the sink has seen for one pair: the calls, those that returned true,
\* and the shifts whose records the loop was working on when it called.
NoCalls == [calls |-> 0, delivered |-> 0, about |-> {}]

NoMessage == [variant |-> "none", shift_number |-> 0, lines |-> <<>>,
              transaction_count |-> 0, total_amount |-> 0, footer |-> "none"]

\* No summary has been fetched.
NoSummary == [transaction_count |-> 0, total_amount |-> 0, currencies |-> <<>>]

\* A coroutine that has not been created.
IdleLoop ==
    [pc            |-> "idle",
     closed_shifts |-> <<>>,     \* closed_shifts of the cycle (line 42)
     idx           |-> 0,        \* position of the for loop (line 50)
     attempts      |-> <<>>,     \* ids passed to _send_shift_summary this cycle
     failed        |-> {},       \* ids whose summary or send failed this cycle
     fetched       |-> {},       \* ids whose summary was returned this cycle
     sends         |-> <<>>,     \* send_message calls of this cycle, with results
     close_raised  |-> FALSE,    \* the close operation raised this cycle
     chat_id       |-> 0,        \* locals of _send_shift_summary (lines 70-72)
     shift_id      |-> 0,
     shift_number  |-> 0,
     summary       |-> NoSummary, \* local of _send_shift_summary (line 75)
     message       |-> NoMessage,
     log           |-> <<>>,     \* force_log lines of the cycle
     slept         |-> 0,        \* seconds slept since the previous cycle ended
     outcome       |-> "none"]   \* how the previous cycle ended

Event(ev, id) == [ev |-> ev, id |-> id]

InCycle(l) == l.pc \in {"close", "summary", "send"}
Live(l) == l.pc \in {"created", "close", "summary", "send", "sleep"}

(* ------------------------ check_auto_close_shifts ----------------------- *)

\* Line 38, then the call of the store's close operation at line 42.
BeginCheck(l) ==
    [l EXCEPT !.pc = "close", !.closed_shifts = <<>>, !.idx = 0,
              !.attempts = <<>>, !.failed = {}, !.close_raised = FALSE,
              !.fetched = {}, !.sends = <<>>,
              !.chat_id = 0, !.shift_id = 0, !.shift_number = 0,
              !.summary = NoSummary, !.message = NoMessage,
              !.log = <<Event("check_start", 0)>>]

\* A failed cycle is followed by a second sleep, the one of the loop's own
\* handler, before the loop is back at its test.
EndCheckSleepTwice(l, how) ==
    [l EXCEPT !.pc = "sleep", !.idx = 0,
              !.chat_id = 0, !.shift_id = 0, !.shift_number = 0,
              !.summary = NoSummary, !.message = NoMessage,
              !.slept = IF how = "failed" THEN SleepInterval ELSE 0,
              !.outcome = how]

\* check_auto_close_shifts has returned; start_scheduler goes on to
\* `await asyncio.sleep(60)` at line 25.  The handler of lines 26-29 has no
\* step here: check_auto_close_shifts catches every Exception itself and
\* asyncio.sleep raises none, so nothing in the try block reaches it.
EndCheck(l, how) ==
    [l EXCEPT !.pc = "sleep", !.idx = 0,
              !.chat_id = 0, !.shift_id = 0, !.shift_number = 0,
              !.summary = NoSummary, !.message = NoMessage, !.slept = 0, !.outcome = how]

\* The error ends the loop instead of the cycle.
BreakOnCheckError(l) == [l EXCEPT !.pc = "done"]

\* No handler on the way: the error leaves start_scheduler.
EscapeCheckError(l) == [l EXCEPT !.pc = "crashed"]

\* Lines 61-65: the cycle-level handler.
CatchCheckError(l) ==
    EndCheck([l EXCEPT !.log = Append(@, Event("check_error", 0))], "failed")

\* The scheduler was built without a bot service.
BotServiceAbsent == FALSE

\* self.bot_service is the AutosumBusinessBot given to the constructor; the
\* class defines neither __bool__ nor __len__, so the object is truthy.
BotServiceAvailable == TRUE

\* The notification sub-steps of all remaining records are started together
\* (as asyncio.gather would) instead of one after the other.
ForEachShiftEager(l, i) ==
    IF i > Len(l.closed_shifts)
    THEN EndCheck(l, "ok")
    ELSE LET shift == l.closed_shifts[i]
         IN  [l EXCEPT !.idx = i,
                       !.pc = "summary",
                       !.log = Append(@, Event("shift", shift.id)),
                       !.attempts = @ \o [k \in 1..(Len(l.closed_shifts) - i + 1) |->
                                             l.closed_shifts[i + k - 1].id],
                       !.chat_id = shift.chat_id,
                       !.shift_id = shift.id,
                       !.shift_number = shift.number,
                       !.summary = NoSummary,
                       !.message = NoMessage]

\* The for loop of lines 50-57 from position i on, up to the next await: the
\* per-shift log line, then _send_shift_summary reads the record (lines 70-72)
\* and awaits the summary (line 75).
RECURSIVE ForEachShift(_, _)
ForEachShift(l, i) ==
    IF i > Len(l.closed_shifts)
    THEN EndCheck(l, "ok")
    ELSE LET shift == l.closed_shifts[i]
             logged == [l EXCEPT !.idx = i,
                                 !.log = Append(@, Event("shift", shift.id))]
         IN  IF BotServiceAvailable
             THEN [logged EXCEPT !.pc = "summary",
                                 !.attempts = Append(@, shift.id),
                                 !.chat_id = shift.chat_id,
                                 !.shift_id = shift.id,
                                 !.shift_number = shift.number,
                                 !.summary = NoSummary,
                                 !.message = NoMessage]
             ELSE ForEachShift(logged, i + 1)

\* The empty list is not told apart: the for loop runs over it and the
\* cycle ends without the no-shifts line.
AfterCloseNoElse(l, recs) ==
    ForEachShift([l EXCEPT !.closed_shifts = recs,
                           !.log = Append(@, Event("closed", Len(recs)))], 1)

\* shift['id'] is there.  A record without the key is written with id 0,
\* which no shift has.
HasId(shift) == shift.id \in Shifts

\* Lines 44-59: what the cycle does with the list the store returned.  The
\* log line of lines 45-47 reads shift['id'] of every record before the for
\* loop begins: a record without an id raises KeyError there, inside the try
\* block of line 40 and outside any per-shift handler.
AfterClose(l, recs) ==
    IF recs # <<>>
    THEN IF \A k \in 1..Len(recs) : HasId(recs[k])
         THEN ForEachShift([l EXCEPT !.closed_shifts = recs,
                                     !.log = Append(@, Event("closed", Len(recs)))], 1)
         ELSE CatchCheckError([l EXCEPT !.closed_shifts = recs])
    ELSE EndCheck([l EXCEPT !.log = Append(@, Event("none_closed", 0))], "ok")

(* -------------------------- _send_shift_summary ------------------------- *)

\* The test of line 80 is `> 1`.
FormatMessageOffByOne(shift_number, summary) ==
    IF summary.transaction_count > 1
    THEN [variant |-> "breakdown", shift_number |-> shift_number,
          lines |-> [k \in 1..Len(summary.currencies) |->
                        [symbol |-> summary.currencies[k].currency,
                         amount |-> summary.currencies[k].amount,
                         count  |-> summary.currencies[k].count]],
          transaction_count |-> summary.transaction_count,
          total_amount |-> summary.total_amount,
          footer |-> "auto_closed"]
    ELSE [variant |-> "no_transactions", shift_number |-> shift_number,
          lines |-> <<>>, transaction_count |-> 0, total_amount |-> 0,
          footer |-> "auto_closed"]

\* Lines 80-113: the message built from the summary.
FormatMessage(shift_number, summary) ==
    IF summary.transaction_count > 0
    THEN [variant |-> "breakdown", shift_number |-> shift_number,
          lines |-> [k \in 1..Len(summary.currencies) |->
                        [symbol |-> summary.currencies[k].currency,
                         amount |-> summary.currencies[k].amount,
                         count  |-> summary.currencies[k].count]],
          transaction_count |-> summary.transaction_count,
          total_amount |-> summary.total_amount,
          footer |-> "auto_closed"]
    ELSE [variant |-> "no_transactions", shift_number |-> shift_number,
          lines |-> <<>>, transaction_count |-> 0, total_amount |-> 0,
          footer |-> "auto_closed"]

\* Lines 79-116: the summary has arrived; format and call send_message.
AfterSummary(l, summary) ==
    [l EXCEPT !.pc = "send",
              !.summary = summary,
              !.message = FormatMessage(l.shift_number, summary)]

\* _send_shift_summary has returned: the for loop takes the next record.
NextShift(l) == ForEachShift(l, l.idx + 1)

\* Success is logged whatever send_message returned.
AfterSendLogsSent(l, success) ==
    NextShift([l EXCEPT !.log = Append(@, Event("sent", l.shift_id))])

\* A send that returned false is tried again.
AfterSendRetry(l, success) ==
    IF success
    THEN NextShift([l EXCEPT !.log = Append(@, Event("sent", l.shift_id))])
    ELSE [l EXCEPT !.pc = "send"]

\* Lines 117-122: send_message has returned success.
AfterSend(l, success) ==
    NextShift([l EXCEPT !.log = Append(@, Event(IF success THEN "sent"
                                                 ELSE "send_failed", l.shift_id))])

\* No per-shift handler: the error reaches the cycle-level handler.
PropagateShiftError(l) == CatchCheckError(l)

\* Lines 124-130: the per-shift handler; shift_info.get('id', 'unknown').
CatchShiftError(l) ==
    NextShift([l EXCEPT !.log = Append(@, Event("summary_error",
                                                l.closed_shifts[l.idx].id))])

(* ------------------------ start_scheduler's loop ------------------------ *)

\* `while True`: the flag is not read.
LoopTopIgnoresFlag(l, running) == BeginCheck(l)

\* Line 21: `while self.is_running`, read as `running`.
LoopTop(l, running) ==
    IF running THEN BeginCheck(l)
    ELSE [IdleLoop EXCEPT !.pc = "done"]

(* ------------------------------ actions -------------------------------- *)

Init ==
    /\ is_running = FALSE
    /\ loop = [t \in Tasks |-> IdleLoop]
    /\ shift_status = [s \in Shifts |-> "open"]
    /\ send_calls = [k \in SendKeys |-> NoCalls]
    /\ stop_at = [t \in Tasks |-> "none"]
    /\ reentered = FALSE
    /\ stop_pending = FALSE

\* Single-instance ownership: the owner starts a loop only when no other
\* loop instance is live.
NoLiveLoop == \A u \in Tasks : ~Live(loop[u])

\* One call of start_scheduler() puts two coroutine instances on the event
\* loop.
StartAlsoSpawns(t) ==
    /\ loop[t].pc = "idle"
    /\ \A u \in Tasks : u < t => loop[u].pc # "idle"
    /\ loop' = [u \in Tasks |->
                  IF u = t \/ u = t + 1 THEN [loop[u] EXCEPT !.pc = "created"]
                  ELSE loop[u]]
    /\ reentered' = (reentered \/ ~NoLiveLoop)
    /\ stop_pending' = FALSE
    /\ UNCHANGED <<is_running, shift_status, send_calls, stop_at>>

\* A caller creates the coroutine start_scheduler() and hands it to the
\* event loop; coroutines are numbered in the order of their creation.
\* Nothing in start_scheduler looks at a loop that already runs.
Start(t) ==
    /\ loop[t].pc = "idle"
    /\ \A u \in Tasks : u < t => loop[u].pc # "idle"
    /\ loop' = [loop EXCEPT ![t].pc = "created"]
    /\ reentered' = (reentered \/ ~NoLiveLoop)
    /\ stop_pending' = FALSE
    /\ UNCHANGED <<is_running, shift_status, send_calls, stop_at>>

StartOwned(t) == NoLiveLoop /\ Start(t)

\* Lines 18-23: the coroutine's first step sets the flag, passes the while
\* test and enters the first cycle.
Begin(t) ==
    /\ loop[t].pc = "created"
    /\ is_running' = TRUE
    /\ loop' = [loop EXCEPT ![t] = LoopTop(loop[t], TRUE)]
    /\ stop_at' = [u \in Tasks |-> "none"]
    /\ UNCHANGED <<shift_status, send_calls, reentered, stop_pending>>

\* stop_scheduler cancels the cycle in flight.
StopCancelsCycle(l) == IF InCycle(l) THEN [IdleLoop EXCEPT !.pc = "done"] ELSE l

\* Lines 31-34: what stop_scheduler does to a loop: nothing, it only clears
\* the flag.
StopEffect(l) == l

Stop ==
    /\ is_running' = FALSE
    /\ loop' = [t \in Tasks |-> StopEffect(loop[t])]
    /\ stop_at' = [t \in Tasks |->
                     IF Live(loop[t]) /\ stop_at[t] = "none"
                     THEN loop[t].pc ELSE stop_at[t]]
    /\ stop_pending' = \E t \in Tasks : loop[t].pc # "idle"
    /\ UNCHANGED <<shift_status, send_calls, reentered>>

\* The store's close operation returns: it has closed some of the open
\* shifts and returns their records.
CloseReturn(t) ==
    /\ loop[t].pc = "close"
    /\ \E recs \in DueShiftLists(shift_status) :
         /\ shift_status' = CloseShifts(shift_status, recs)
         /\ loop' = [loop EXCEPT ![t] = AfterClose(loop[t], recs)]
    /\ UNCHANGED <<is_running, send_calls, stop_at, reentered, stop_pending>>

\* The store's close operation returns a list in which some record has no
\* id.
CloseReturnNoId(t) ==
    /\ loop[t].pc = "close"
    /\ \E recs \in DueShiftLists(shift_status) :
         \E drop \in SUBSET (1..Len(recs)) :
            /\ drop # {}
            /\ shift_status' = CloseShifts(shift_status, recs)
            /\ loop' = [loop EXCEPT ![t] = AfterClose(loop[t], DropIds(recs, drop))]
    /\ UNCHANGED <<is_running, send_calls, stop_at, reentered, stop_pending>>

\* The store's close operation raises.
CloseRaise(t) ==
    /\ loop[t].pc = "close"
    /\ loop' = [loop EXCEPT ![t] =
                  CatchCheckError([loop[t] EXCEPT !.close_raised = TRUE])]
    /\ UNCHANGED <<is_running, shift_status, send_calls, stop_at, reentered, stop_pending>>

\* A failed notification reopens the shift it was about.
RollBackOnFailure(status, l, ok) ==
    IF ok THEN status ELSE [status EXCEPT ![l.shift_id] = "open"]

\* Lines 67-130: what one step of _send_shift_summary (the summary fetch or
\* the send, ended well or not) does to the store: it reads a summary and
\* calls no operation that writes a shift.
StatusAfterNotify(status, l, ok) == status

\* get_shift_income_summary returns.
SummaryReturn(t) ==
    /\ loop[t].pc = "summary"
    /\ \E summary \in Summaries :
         loop' = [loop EXCEPT ![t] =
                    AfterSummary([loop[t] EXCEPT !.fetched = @ \cup {loop[t].shift_id}],
                                 summary)]
    /\ shift_status' = StatusAfterNotify(shift_status, loop[t], TRUE)
    /\ UNCHANGED <<is_running, send_calls, stop_at, reentered, stop_pending>>

\* get_shift_income_summary raises.
SummaryRaise(t) ==
    /\ loop[t].pc = "summary"
    /\ loop' = [loop EXCEPT ![t] =
                  CatchShiftError([loop[t] EXCEPT !.failed = @ \cup {loop[t].shift_id}])]
    /\ shift_status' = StatusAfterNotify(shift_status, loop[t], FALSE)
    /\ UNCHANGED <<is_running, send_calls, stop_at, reentered, stop_pending>>

\* Every message goes to the chat of the first record of the list.
SendCallFirstChat(calls, l, result) ==
    [calls EXCEPT ![<<l.closed_shifts[1].chat_id, l.message.shift_number>>] =
        [calls     |-> @.calls + 1,
         delivered |-> @.delivered + (IF result = "true" THEN 1 ELSE 0),
         about     |-> @.about \cup {l.closed_shifts[l.idx].id}]]

\* send_message(chat_id, message) has been called and has ended with
\* `result` ("true", "false" or "raise").
SendCall(calls, l, result) ==
    [calls EXCEPT ![<<l.chat_id, l.message.shift_number>>] =
        [calls     |-> @.calls + 1,
         delivered |-> @.delivered + (IF result = "true" THEN 1 ELSE 0),
         about     |-> @.about \cup {l.closed_shifts[l.idx].id}]]

\* The call of line 116 as the cycle remembers it: the shift it was made
\* for, how it ended, and whether its second argument was the message of
\* lines 80-113 for the summary fetched at line 75.
SendRecord(l, result) ==
    [id        |-> l.shift_id,
     result    |-> result,
     formatted |-> l.message = FormatMessage(l.shift_number, l.summary)]

\* send_message returns its success indicator.
SendReturn(t) ==
    /\ loop[t].pc = "send"
    /\ \E success \in BOOLEAN :
         /\ send_calls' = SendCall(send_calls, loop[t],
                                    IF success THEN "true" ELSE "false")
         /\ loop' = [loop EXCEPT ![t] =
                       AfterSend([loop[t] EXCEPT
                                     !.failed = IF success THEN @
                                                ELSE @ \cup {loop[t].shift_id},
                                     !.sends = Append(@, SendRecord(loop[t],
                                                  IF success THEN "true" ELSE "false"))],
                                 success)]
         /\ shift_status' = StatusAfterNotify(shift_status, loop[t], success)
    /\ UNCHANGED <<is_running, stop_at, reentered, stop_pending>>

\* send_message raises.
SendRaise(t) ==
    /\ loop[t].pc = "send"
    /\ send_calls' = SendCall(send_calls, loop[t], "raise")
    /\ loop' = [loop EXCEPT ![t] =
                  CatchShiftError([loop[t] EXCEPT
                                      !.failed = @ \cup {loop[t].shift_id},
                                      !.sends = Append(@, SendRecord(loop[t], "raise"))])]
    /\ shift_status' = StatusAfterNotify(shift_status, loop[t], FALSE)
    /\ UNCHANGED <<is_running, stop_at, reentered, stop_pending>>

\* asyncio.sleep(60) returns and the loop is back at line 21.
SleepReturn(t) ==
    /\ loop[t].pc = "sleep"
    /\ loop' = [loop EXCEPT ![t] =
                  LoopTop([loop[t] EXCEPT !.slept = @ + SleepInterval], is_running)]
    /\ UNCHANGED <<is_running, shift_status, send_calls, stop_at, reentered, stop_pending>>

\* A user closes an open shift explicitly.
UserCloseShift(s) ==
    /\ shift_status[s] = "open"
    /\ shift_status' = [shift_status EXCEPT ![s] = "closed"]
    /\ UNCHANGED <<is_running, loop, send_calls, stop_at, reentered, stop_pending>>

LoopStep(t) ==
    \/ Begin(t)
    \/ CloseReturn(t)
    \/ CloseRaise(t)
    \/ SummaryReturn(t)
    \/ SummaryRaise(t)
    \/ SendReturn(t)
    \/ SendRaise(t)
    \/ SleepReturn(t)

Next ==
    \/ \E t \in Tasks : StartOwned(t)
    \/ \E t \in Tasks : LoopStep(t)
    \/ Stop
    \/ \E s \in Shifts : UserCloseShift(s)

Spec == Init /\ [][Next]_vars

\* Any sequence of start_scheduler() and stop_scheduler() calls: a caller
\* may start a loop while another is live (once, which is enough for two
\* loops to run side by side).
StartAgain(t) == (NoLiveLoop \/ ~reentered) /\ Start(t)

NextReentrant ==
    \/ \E t \in Tasks : StartAgain(t)
    \/ \E t \in Tasks : LoopStep(t)
    \/ Stop
    \/ \E s \in Shifts : UserCloseShift(s)

SpecReentrant == Init /\ [][NextReentrant]_vars

\* The store may also return records whose id is unavailable.
NextNoId ==
    \/ Next
    \/ \E t \in Tasks : CloseReturnNoId(t)

SpecNoId == Init /\ [][NextNoId]_vars

\* The event loop runs every coroutine that is ready, and the collaborators'
\* calls and asyncio.sleep return.
FairSpec == Spec /\ \A t \in Tasks : WF_vars(LoopStep(t))

(* ------------------------------ claims --------------------------------- *)

\* The ids of the records of a list, and how often id occurs in a sequence.
Ids(recs) == {recs[k].id : k \in 1..Len(recs)}
Occurrences(seq, id) == Cardinality({k \in 1..Len(seq) : seq[k] = id})

\* The cycle of loop t has returned and the loop is in the sleep after it.
CycleReturned(t) == loop[t].pc = "sleep"

C2_FailureIsolation ==
    \A t \in Tasks :
        CycleReturned(t) =>
            \A a \in loop[t].failed \cap Ids(loop[t].closed_shifts) :
                \A b \in Ids(loop[t].closed_shifts) \ {a} :
                    Occurrences(loop[t].attempts, b) >= 1

\* The first shift of a cycle failed and a later one was still notified.
C2_Witness ==
    \E t \in Tasks :
        /\ CycleReturned(t)
        /\ Len(loop[t].closed_shifts) >= 2
        /\ loop[t].closed_shifts[1].id \in loop[t].failed
        /\ \E k \in 1..Len(loop[t].log) :
              loop[t].log[k] = Event("sent", loop[t].closed_shifts[2].id)

\* C3: when the close operation has raised in a cycle, the loop goes on: it
\* reaches the start of a further check cycle, after one sleep of the fixed
\* interval, unless stop_scheduler has been called in between.
C3_LoopSurvivesCloseError ==
    \A t \in Tasks :
        loop[t].close_raised
            ~> (\/ (loop[t].pc = "close" /\ loop[t].slept = SleepInterval
                                         /\ loop[t].outcome = "failed")
                \/ ~is_running)

\* A cycle has begun after a cycle whose close operation raised.
C3_Witness ==
    \E t \in Tasks :
        /\ loop[t].pc = "close"
        /\ loop[t].outcome = "failed"
        /\ loop[t].slept = SleepInterval
        /\ is_running

\* C4: when stop_scheduler is called while the loop sleeps, the loop's next
\* step is its exit: no check cycle starts after it; and a loop that has
\* exited starts no cycle again.
C4_StopDuringSleep ==
    [][\A t \in Tasks :
          /\ (stop_at[t] = "sleep" /\ loop[t].pc = "sleep")
                => loop'[t].pc \in {"sleep", "done"}
          /\ loop[t].pc = "done" => loop'[t].pc = "done"]_vars

\* A loop stopped in its sleep has exited.
C4_Witness ==
    \E t \in Tasks : stop_at[t] = "sleep" /\ loop[t].pc = "done"

\* stop_scheduler was called while a check cycle of loop t was in flight.
StoppedInFlight(t) == stop_at[t] \in {"close", "summary", "send"}

\* C5 as stated: after stop_scheduler is called during a cycle, the loop
\* exits when the cycle has finished, before its next sleep: it is never in
\* a sleep.
C5_ExitsBeforeNextSleep ==
    \A t \in Tasks : StoppedInFlight(t) => loop[t].pc # "sleep"

\* C5 as amended: after stop_scheduler is called during a cycle, the cycle
\* goes on to its end, the loop then sleeps the interval that ends the
\* iteration, and its next step after that sleep is its exit: no further
\* check cycle and no further sleep.
C5_ExitsAtLoopTopAfterSleep ==
    [][\A t \in Tasks :
          StoppedInFlight(t) =>
              /\ InCycle(loop[t]) => (InCycle(loop'[t]) \/ loop'[t].pc = "sleep")
              /\ loop[t].pc = "sleep" => loop'[t].pc \in {"sleep", "done"}
              /\ loop[t].pc = "done" => loop'[t].pc = "done"]_vars

\* A loop stopped while its summary fetch was pending has exited.
C5_Witness ==
    \E t \in Tasks : stop_at[t] = "summary" /\ loop[t].pc = "done"

\* C6: stop_scheduler changes no loop (it aborts no cycle), and a cycle during
\* which it was called, even as the first thing after the loop began, still
\* gives every returned record its notification attempt; the loop is still
\* there, in its sleep, when the cycle has returned.
C6_StopIsCooperative ==
    /\ [][(is_running /\ ~is_running') => loop' = loop]_vars
    /\ [](\A t \in Tasks :
            StoppedInFlight(t) =>
                /\ loop[t].pc \in {"close", "summary", "send", "sleep", "done"}
                /\ CycleReturned(t) =>
                      \A k \in 1..Len(loop[t].closed_shifts) :
                          Occurrences(loop[t].attempts,
                                      loop[t].closed_shifts[k].id) = 1)

\* stop_scheduler came while the close operation was pending, and the cycle
\* has returned with every shift closed in it notified.
C6_Witness ==
    \E t \in Tasks :
        /\ stop_at[t] = "close"
        /\ CycleReturned(t)
        /\ Len(loop[t].closed_shifts) = MaxShifts
        /\ Len(loop[t].attempts) = MaxShifts
        /\ ~is_running

\* C7: no loop is ever ended by an error, and a loop exits only in the step
\* that wakes from the sleep and finds the flag cleared.
C7_NoErrorEscapes ==
    /\ [](\A t \in Tasks : loop[t].pc # "crashed")
    /\ [][\A t \in Tasks :
            (loop[t].pc # "done" /\ loop'[t].pc = "done")
                => (loop[t].pc = "sleep" /\ ~is_running)]_vars

\* Every collaborator call of a cycle's shifts failed and the loop sleeps on.
C7_Witness ==
    \E t \in Tasks :
        /\ CycleReturned(t)
        /\ is_running
        /\ Len(loop[t].closed_shifts) = MaxShifts
        /\ loop[t].failed = Ids(loop[t].closed_shifts)

\* C8: a cycle that is not the loop's first starts with exactly one sleep of
\* SleepInterval seconds behind it, whether the cycle before it returned
\* normally or failed; while the loop sleeps no earlier sleep is behind it.
C8_OneSleepBetweenCycles ==
    \A t \in Tasks :
        /\ (InCycle(loop[t]) /\ loop[t].outcome # "none")
              => loop[t].slept = SleepInterval
        /\ (InCycle(loop[t]) /\ loop[t].outcome = "none") => loop[t].slept = 0
        /\ loop[t].pc = "sleep" => loop[t].slept = 0

\* A cycle is under way after a failed one.
C8_Witness ==
    \E t \in Tasks :
        /\ loop[t].pc = "summary"
        /\ loop[t].outcome = "failed"
        /\ loop[t].slept = SleepInterval

\* C9 reads the cycle's log.
LogHas(t, ev) == \E k \in 1..Len(loop[t].log) : loop[t].log[k].ev = ev

\* C9: when the close operation has returned the empty list, the cycle makes
\* no notification attempt, fetches no summary and sends nothing, and its log
\* is the start line followed by the no-shifts-closed line.
C9_EmptyListIsNoOp ==
    \A t \in Tasks :
        (CycleReturned(t) /\ loop[t].closed_shifts = <<>>
                          /\ ~loop[t].close_raised) =>
            /\ loop[t].attempts = <<>>
            /\ loop[t].log = <<Event("check_start", 0), Event("none_closed", 0)>>

\* A cycle whose close operation returned the empty list has returned.
C9_Witness ==
    \E t \in Tasks :
        /\ CycleReturned(t)
        /\ loop[t].closed_shifts = <<>>
        /\ ~loop[t].close_raised
        /\ LogHas(t, "none_closed")

\* C10: with a store that returns no shift as closed twice, over all cycles
\* send_message is called at most once per closed shift (chat and shift
\* number), whatever the call's result: a chat receives at most one summary
\* per shift and a failed delivery is not tried again.
C10_AtMostOnce ==
    \A key \in SendKeys :
        /\ send_calls[key].calls <= 1
        /\ send_calls[key].delivered <= send_calls[key].calls

\* A delivery failed, and a later cycle ran and returned without a new call.
C10_Witness ==
    \E key \in SendKeys, t \in Tasks :
        /\ send_calls[key].calls = 1
        /\ send_calls[key].delivered = 0
        /\ CycleReturned(t)
        /\ loop[t].closed_shifts = <<>>
        /\ loop[t].outcome = "ok"
        /\ \A s \in Shifts : shift_status[s] = "closed"

\* C11: a shift the close operation returned as closed stays closed through
\* the summary and delivery steps of its cycle and after them, whether its
\* notification succeeded, returned false or raised: every record of the
\* cycle's list names a closed shift, and no summary or send step changes the
\* status of any shift.
C11_FailureKeepsClosure ==
    /\ [](\A t \in Tasks : \A k \in 1..Len(loop[t].closed_shifts) :
            shift_status[loop[t].closed_shifts[k].id] = "closed")
    /\ [][(\E t \in Tasks : /\ loop[t].pc \in {"summary", "send"}
                             /\ loop'[t] # loop[t])
            => shift_status' = shift_status]_vars

\* A cycle has returned in which one shift's send returned false and another
\* shift's summary or send raised; both are closed.
C11_Witness ==
    \E t \in Tasks :
        /\ CycleReturned(t)
        /\ LogHas(t, "send_failed")
        /\ LogHas(t, "summary_error")
        /\ \A id \in loop[t].failed : shift_status[id] = "closed"
        /\ Cardinality(loop[t].failed) = MaxShifts

\* The loops that are live, and those with a check cycle in flight.
LiveLoops == {t \in Tasks : Live(loop[t])}
LoopsInCycle == {t \in Tasks : InCycle(loop[t])}

\* C12 as stated: whatever the sequence of start and stop calls, at most one
\* loop instance is live and at most one check cycle is in flight.
C12_NeverTwoLoops ==
    /\ Cardinality(LiveLoops) <= 1
    /\ Cardinality(LoopsInCycle) <= 1

\* C12 as amended: as long as start_scheduler() has not been called while a
\* loop instance was live, at most one loop instance is live and at most one
\* check cycle is in flight.
C12_OneLoopUnderSingleOwnership ==
    ~reentered =>
        /\ Cardinality(LiveLoops) <= 1
        /\ Cardinality(LoopsInCycle) <= 1

\* A second loop, started after the first had exited, has a cycle in flight.
C12_Witness ==
    /\ ~reentered
    /\ \E t, u \in Tasks : /\ loop[t].pc = "done"
                            /\ loop[u].pc \in {"summary", "send"}

\* C13: the message handed to send_message is the breakdown variant, with one
\* line per entry of the summary's currencies carrying that entry's symbol,
\* amount and count, and with the summary's transaction count and total
\* amount, exactly when the summary's transaction_count is above zero; it is
\* the no-transactions variant otherwise; both carry the number of the
\* shift's record and the auto-closed footer.
C13_MessageVariant ==
    \A t \in Tasks :
        loop[t].pc = "send" =>
            LET m == loop[t].message
                sm == loop[t].summary
            IN  /\ (m.variant = "breakdown") = (sm.transaction_count > 0)
                /\ (m.variant = "no_transactions") = ~(sm.transaction_count > 0)
                /\ m.variant = "breakdown" =>
                      /\ Len(m.lines) = Len(sm.currencies)
                      /\ \A k \in 1..Len(sm.currencies) :
                            /\ m.lines[k].symbol = sm.currencies[k].currency
                            /\ m.lines[k].amount = sm.currencies[k].amount
                            /\ m.lines[k].count = sm.currencies[k].count
                      /\ m.transaction_count = sm.transaction_count
                      /\ m.total_amount = sm.total_amount
                /\ m.variant = "no_transactions" => m.lines = <<>>
                /\ m.shift_number = loop[t].closed_shifts[loop[t].idx].number
                /\ m.footer = "auto_closed"

\* The breakdown for a summary of one transaction is about to be sent.
C13_Witness ==
    \E t \in Tasks :
        /\ loop[t].pc = "send"
        /\ loop[t].summary.transaction_count = 1
        /\ loop[t].message.variant = "breakdown"
        /\ Len(loop[t].message.lines) = 1

\* C14: when the list of a cycle holds a record whose id is unavailable, the
\* error stays with that record: the cycle-level handler is not entered, and
\* by the time the cycle returns every other record of the list has its
\* notification attempt.
C14_IdlessRecordContained ==
    \A t \in Tasks :
        (CycleReturned(t) /\ \E k \in 1..Len(loop[t].closed_shifts) :
                                ~HasId(loop[t].closed_shifts[k])) =>
            /\ ~LogHas(t, "check_error")
            /\ \A k \in 1..Len(loop[t].closed_shifts) :
                  HasId(loop[t].closed_shifts[k]) =>
                      Occurrences(loop[t].attempts, loop[t].closed_shifts[k].id) = 1

\* The log lines with which a notification sub-step returns: success, false
\* result, or caught error.
IsReturnEvent(e) == e.ev \in {"sent", "send_failed", "summary_error"}
Returned(l) == SelectSeq(l.log, IsReturnEvent)
InFlight(l) == Len(l.attempts) - Len(Returned(l))

\* C15: within one cycle the sub-steps are started in the order of the list
\* the store returned and return in that order; a sub-step is started only
\* when every earlier one has returned, so at most one summary fetch or send
\* is in flight, and one is in flight exactly while the loop waits for a
\* summary or a send.
C15_Sequential ==
    \A t \in Tasks :
        LET l == loop[t]
        IN  /\ Len(l.attempts) <= Len(l.closed_shifts)
            /\ \A k \in 1..Len(l.attempts) : l.attempts[k] = l.closed_shifts[k].id
            /\ Len(Returned(l)) <= Len(l.attempts)
            /\ \A k \in 1..Len(Returned(l)) : Returned(l)[k].id = l.attempts[k]
            /\ InFlight(l) \in {0, 1}
            /\ (InFlight(l) = 1) <=> (l.pc \in {"summary", "send"})
            /\ l.pc \in {"summary", "send"} => l.idx = Len(l.attempts)

\* The summary fetch of the second record of a list is in flight after the
\* sub-step of the first has returned.
C15_Witness ==
    \E t \in Tasks :
        /\ loop[t].pc = "summary"
        /\ loop[t].idx = 2
        /\ Len(Returned(loop[t])) = 1
        /\ Len(loop[t].closed_shifts) = 2

SendsFor(l, id) == {k \in 1..Len(l.sends) : l.sends[k].id = id}
Logged(l, ev, id) == \E k \in 1..Len(l.log) : l.log[k] = Event(ev, id)

\* C16: in every cycle send_message is called only for shifts whose summary
\* was fetched, at most once for each and exactly once as soon as the
\* sub-step is past the send, always with the message formatted from the
\* fetched summary; the success line is logged for a shift exactly when its
\* send returned true, the failure line when it returned false, and the
\* handler's error line when it raised.
C16_OneSendAndItsLog ==
    \A t \in Tasks :
        LET l == loop[t]
            waiting(id) == l.pc = "send" /\ l.shift_id = id
        IN  /\ \A k \in 1..Len(l.sends) :
                  /\ l.sends[k].id \in l.fetched
                  /\ l.sends[k].formatted
                  /\ l.sends[k].result = "false" => Logged(l, "send_failed", l.sends[k].id)
                  /\ l.sends[k].result = "raise" => Logged(l, "summary_error", l.sends[k].id)
                  /\ l.sends[k].result # "true" => l.sends[k].id \in l.failed
            /\ \A id \in l.fetched :
                  /\ Cardinality(SendsFor(l, id)) = IF waiting(id) THEN 0 ELSE 1
                  /\ Logged(l, "sent", id) <=>
                        \E k \in SendsFor(l, id) : l.sends[k].result = "true"
            /\ \A id \in Shifts : Logged(l, "sent", id) => id \in l.fetched

\* A cycle has returned in which one send returned true and another returned
\* false or raised.
C16_Witness ==
    \E t \in Tasks :
        /\ CycleReturned(t)
        /\ \E j, k \in 1..Len(loop[t].sends) :
              /\ loop[t].sends[j].result = "true"
              /\ loop[t].sends[k].result \in {"false", "raise"}

\* C17: once stop_scheduler has been called after start_scheduler, and for
\* as long as start_scheduler is not called again, the loop eventually
\* terminates with is_running false, whatever the order in which the event
\* loop ran the two coroutines.
C17_StopTerminatesLoop ==
    stop_pending ~> (~stop_pending \/ (NoLiveLoop /\ ~is_running))

\* C18: while a notification sub-step waits for the summary or the send, the
\* chat, the id and the number it works with are those of one record, the
\* one the for loop is at, and the message carries that record's number; every
\* send the sink has seen for a chat and a shift number was made for a shift
\* of that chat with that number, however many shifts of different chats one
\* cycle closed.
C18_Routing ==
    /\ \A t \in Tasks :
          loop[t].pc \in {"summary", "send"} =>
              LET shift == loop[t].closed_shifts[loop[t].idx]
              IN  /\ loop[t].chat_id = shift.chat_id
                  /\ loop[t].shift_id = shift.id
                  /\ loop[t].shift_number = shift.number
                  /\ loop[t].chat_id = ChatOf(shift.id)
                  /\ loop[t].pc = "send" => loop[t].message.shift_number = shift.number
    /\ \A key \in SendKeys :
          \A s \in send_calls[key].about :
              ChatOf(s) = key[1] /\ NumberOf(s) = key[2]

\* One cycle closed two shifts of different chats and a message was
\* delivered for each.
C18_Witness ==
    \E t \in Tasks :
        /\ CycleReturned(t)
        /\ Len(loop[t].closed_shifts) = 2
        /\ loop[t].closed_shifts[1].chat_id # loop[t].closed_shifts[2].chat_id
        /\ \A k \in 1..2 :
              LET shift == loop[t].closed_shifts[k]
              IN  /\ shift.id \in send_calls[<<shift.chat_id, shift.number>>].about
                  /\ send_calls[<<shift.chat_id, shift.number>>].delivered = 1

====
